---- MODULE Spec2Model ----
(***************************************************************************)
(* Model of src/app.py (Exampill study planner).                           *)
(*                                                                         *)
(* Text returned by the generative model is a sequence of lexemes.  One    *)
(* lexeme stands for one lexical chunk of the text (a brace, a bracket, a  *)
(* comma, a JSON key with its colon, the fields of one JSON object, a      *)
(* number, a word of prose, a video id written in prose, a code fence).    *)
(* Character offsets of the source are offsets in lexemes; insignificant   *)
(* whitespace between lexemes is not represented (str.strip and json.loads *)
(* skip it).                                                               *)
(***************************************************************************)
EXTENDS Integers, Sequences, FiniteSets, TLC

VARIABLES
    planText,        \* what call_model returns for the plan prompt: [none, text]
    plan,            \* the value generate_study_plan returned to submit
    normalized,      \* topics_page's local list, as it is before the sort
    session_topics,  \* session['topics']: [kind, items], kind "none" while unset
    visits,          \* number of /topics requests served since the last /Submit
    videos,          \* what search_youtube returned for the pending /videos request
    modelText,       \* what call_model returns for the ranking prompt: [none, text]
    ranked,          \* the value rank_videos returned
    topicVideos,     \* topic['videos'] as handed to the template
    pc,              \* "form" -> "submitted" for /Submit; "start" -> "done" for /videos
    outcome          \* how the last handler ended: "none", "ok", "redirect", "result", "error"

vars == <<planText, plan, normalized, session_topics, visits, videos, modelText, ranked, topicVideos, pc, outcome>>

(***************************** bounds **************************************)
MaxText == 3      \* longest free-form ranking text, in lexemes
MaxEntries == 2   \* longest freely chosen list of ranked entries
MaxLong == 6      \* longest well-formed list of ranked entries
MaxVideos == 6    \* most candidates a search returns in the model
MaxTopics == 3    \* most topics in a generated plan
MaxVisits == 2    \* /topics requests counted after a /Submit

(************************* program constants *******************************)
TopK == 5
ReasonBefore == 120
ReasonAfter == 200

Min(a, b) == IF a < b THEN a ELSE b
Max(a, b) == IF a > b THEN a ELSE b

(***************************** JSON scalars ********************************)
\* A value stored under a key of a topic object.  t is the Python type;
\* s holds the characters of a str or the items of a list; n the number.
Absent == [t |-> "absent", s |-> <<>>, n |-> 0]
JNull == [t |-> "null", s |-> <<>>, n |-> 0]
Str(chars) == [t |-> "str", s |-> chars, n |-> 0]
Num(k) == [t |-> "num", s |-> <<>>, n |-> k]
List(items) == [t |-> "list", s |-> items, n |-> 0]

AliasKeys == {"name", "topic", "title", "weightage", "weight", "priority",
              "estimated_hours", "estimatedHours", "hours",
              "key_concepts", "keyConcepts", "concepts"}

\* The JSON object {} seen as a topic: every key is missing.
EmptyObject == [k \in AliasKeys |-> Absent]

(******************************* lexemes ***********************************)
\* k: "{" "}" "[" "]" "," | "rv" ("ranked_videos":) | "tp" ("topics":) |
\*    "ent" (the fields "video_id":vid,"rank":rank[,"reasoning":...] of one
\*    object) | "top" (the fields of topic object number tid of RawTopicPool) |
\*    "num" | "x" (a word
\*    of prose) | "id" (the id vid written in prose) | "fj" (```json) | "f" (```)
Lx(k) == [k |-> k, vid |-> "", rank |-> 0, has_reas |-> FALSE, tid |-> 0]
IdLx(v) == [Lx("id") EXCEPT !.vid = v]
Ent(v, r, h) == [Lx("ent") EXCEPT !.vid = v, !.rank = r, !.has_reas = h]
TopLx(i) == [Lx("top") EXCEPT !.tid = i]

\* The text of a "reasoning" string written by the model.
ModelReason == <<Lx("x")>>

(**************************** json.loads ***********************************)
NumV == [kind |-> "num"]
ListV(items) == [kind |-> "list", items |-> items]
DictV(key, val, fields) == [kind |-> "dict", key |-> key, val |-> val, fields |-> fields]

Fail == [ok |-> FALSE, val |-> NumV, next |-> 0]
Ok(v, n) == [ok |-> TRUE, val |-> v, next |-> n]

KindAt(s, i) == IF i >= 1 /\ i <= Len(s) THEN s[i].k ELSE "eof"

KeyName(k) == IF k = "rv" THEN "ranked_videos" ELSE "topics"

RECURSIVE ParseValue(_, _)
RECURSIVE ParseItems(_, _, _)

\* One JSON value starting at lexeme i of s.
ParseValue(s, i) ==
    CASE KindAt(s, i) = "num" -> Ok(NumV, i + 1)
      [] KindAt(s, i) = "{" ->
            IF KindAt(s, i + 1) = "}"
            THEN Ok(DictV("", NumV, Lx("x")), i + 2)
            ELSE IF KindAt(s, i + 1) \in {"ent", "top"} /\ KindAt(s, i + 2) = "}"
            THEN Ok(DictV("fields", NumV, s[i + 1]), i + 3)
            ELSE IF KindAt(s, i + 1) \in {"rv", "tp"}
            THEN LET r == ParseValue(s, i + 2)
                 IN IF r.ok /\ KindAt(s, r.next) = "}"
                    THEN Ok(DictV(KeyName(s[i + 1].k), r.val, Lx("x")), r.next + 1)
                    ELSE Fail
            ELSE Fail
      [] KindAt(s, i) = "[" ->
            IF KindAt(s, i + 1) = "]"
            THEN Ok(ListV(<<>>), i + 2)
            ELSE ParseItems(s, i + 1, <<>>)
      [] OTHER -> Fail

\* The items of a JSON array after its "[", up to and including its "]".
ParseItems(s, i, acc) ==
    LET r == ParseValue(s, i)
    IN IF ~r.ok THEN Fail
       ELSE IF KindAt(s, r.next) = "," THEN ParseItems(s, r.next + 1, Append(acc, r.val))
       ELSE IF KindAt(s, r.next) = "]" THEN Ok(ListV(Append(acc, r.val)), r.next + 1)
       ELSE Fail

\* json.loads(s): the whole of s must be one value, else it raises.
json_loads(s) ==
    LET r == ParseValue(s, 1)
    IN IF r.ok /\ r.next = Len(s) + 1 THEN r ELSE Fail

(************************** code-fence cleanup *****************************)
DropFirst(s) == SubSeq(s, 2, Len(s))
DropLast(s) == SubSeq(s, 1, Len(s) - 1)

\* startswith('```json') -> [7:]; startswith('```') -> [3:]; endswith('```') -> [:-3]
CleanMarkdown(text) ==
    LET a == IF KindAt(text, 1) = "fj" THEN DropFirst(text) ELSE text
        b == IF KindAt(a, 1) = "f" THEN DropFirst(a) ELSE a
    IN IF KindAt(b, Len(b)) \in {"f"} THEN DropLast(b) ELSE b

(*************************** re.search *************************************)
Positions(s, k) == {i \in 1..Len(s) : s[i].k = k}
First(S) == CHOOSE i \in S : \A j \in S : i <= j
Last(S) == CHOOSE i \in S : \A j \in S : j <= i

\* re.search(open [\s\S]* close): leftmost open, greedy to the last close.
\* The empty sequence stands for "no match".
Search(s, open, close) ==
    IF Positions(s, open) = {} \/ Positions(s, close) = {} THEN <<>>
    ELSE IF Last(Positions(s, close)) > First(Positions(s, open))
         THEN SubSeq(s, First(Positions(s, open)), Last(Positions(s, close)))
         ELSE <<>>

ExtractJson(text) ==
    IF Len(Search(text, "{", "}")) > 0 THEN Search(text, "{", "}")
    ELSE Search(text, "[", "]")

(************************** list.sort(key=...) *****************************)
\* Variant: an unstable sort, which places an element before its equals.
Place_Unstable(sorted, p) ==
    LET n == Cardinality({i \in 1..Len(sorted) : sorted[i].key < p.key})
    IN SubSeq(sorted, 1, n) \o <<p>> \o SubSeq(sorted, n + 1, Len(sorted))

\* Python's sort is stable: an element goes after those already placed whose
\* key is smaller or equal.
Place(sorted, p) ==
    LET n == Cardinality({i \in 1..Len(sorted) : sorted[i].key <= p.key})
    IN SubSeq(sorted, 1, n) \o <<p>> \o SubSeq(sorted, n + 1, Len(sorted))

RECURSIVE SortFrom(_, _, _)
SortFrom(pairs, i, acc) ==
    IF i > Len(pairs) THEN acc ELSE SortFrom(pairs, i + 1, Place(acc, pairs[i]))

\* pairs: a sequence of [key, val]; the result is the vals by ascending key.
SortByKey(pairs) ==
    LET out == SortFrom(pairs, 1, <<>>)
    IN [i \in 1..Len(out) |-> out[i].val]

Take(s, n) == SubSeq(s, 1, Min(n, Len(s)))

(***************************** rank_videos *********************************)
\* What call_model hands back: None, or the stripped text.
NoText == [none |-> TRUE, text |-> <<>>]
Text(t) == [none |-> FALSE, text |-> t]

\* One record of search_youtube's result; merging adds rank and reasoning.
Video(v) == [video_id |-> v, title |-> "title " \o v, channel |-> "channel " \o v,
             url |-> "https://www.youtube.com/watch?v=" \o v,
             has_rank |-> FALSE, rank |-> 0, reasoning |-> <<>>]

\* One item of the list rank_videos returns.  kind is the Python type of the
\* item; has_id and has_reasoning say whether the dict has those keys.
Ref(v, r, h, why) == [kind |-> "dict", has_id |-> TRUE, video_id |-> v, rank |-> r,
                      has_reasoning |-> h, reasoning |-> why]
NoRef(kind) == [kind |-> kind, has_id |-> FALSE, video_id |-> "", rank |-> 0,
                has_reasoning |-> FALSE, reasoning |-> <<>>]

\* A decoded JSON value as an item of the returned list.
RefOf(v) ==
    IF v.kind = "dict" /\ v.key = "fields" /\ v.fields.k = "ent"
    THEN Ref(v.fields.vid, v.fields.rank, v.fields.has_reas,
             IF v.fields.has_reas THEN ModelReason ELSE <<>>)
    ELSE NoRef(v.kind)

\* ranked = result.get('ranked_videos', []) if isinstance(result, dict) else result
RankedOf(result) ==
    IF result.kind = "dict"
    THEN IF result.key = "ranked_videos" THEN result.val ELSE ListV(<<>>)
    ELSE result

\* The structured tier returns iff json.loads, len(ranked) and ranked[:5] all
\* succeed: len raises on a number, slicing on a dict.
StructuredOk(json_text) ==
    /\ Len(json_text) > 0
    /\ json_loads(json_text).ok
    /\ RankedOf(json_loads(json_text).val).kind = "list"

Structured(json_text) ==
    LET items == RankedOf(json_loads(json_text).val).items
    IN Take([i \in 1..Len(items) |-> RefOf(items[i])], TopK)

\* Does lexeme l contain the id vid as a substring?
LexemeHas(l, vid) == l.k \in {"id", "ent"} /\ l.vid = vid

\* text.find(vid), 1-based; 0 stands for -1.
Find(text, vid) ==
    IF \E i \in 1..Len(text) : LexemeHas(text[i], vid)
    THEN First({i \in 1..Len(text) : LexemeHas(text[i], vid)})
    ELSE 0

\* text[max(0, pos - 120) : min(len(text), pos + 200)]
Window(text, pos) ==
    SubSeq(text, Max(1, pos - ReasonBefore), Min(Len(text), pos + ReasonAfter - 1))

\* id_positions before sorting, as [key, val] pairs keyed by position.
IdPositions(vs, text) ==
    LET found == SelectSeq(vs, LAMBDA v : v.video_id # "" /\ Find(text, v.video_id) # 0)
    IN [i \in 1..Len(found) |->
          [key |-> Find(text, found[i].video_id),
           val |-> [vid |-> found[i].video_id,
                    reasoning |-> Window(text, Find(text, found[i].video_id))]]]

\* Variant: the found ids are ranked in search order, the sort left out.
Heuristic_Unsorted(vs, text) ==
    LET found == IdPositions(vs, text)
        top == Take([i \in 1..Len(found) |-> found[i].val], TopK)
    IN [i \in 1..Len(top) |-> Ref(top[i].vid, i, TRUE, top[i].reasoning)]

Heuristic(vs, text) ==
    LET top == Take(SortByKey(IdPositions(vs, text)), TopK)
    IN [i \in 1..Len(top) |-> Ref(top[i].vid, i, TRUE, top[i].reasoning)]

\* Variant: every candidate is returned, the [:5] left out.
Fallback_All(vs) ==
    [i \in 1..Len(vs) |-> Ref(vs[i].video_id, i, FALSE, <<>>)]

Fallback(vs) ==
    [i \in 1..Min(TopK, Len(vs)) |-> Ref(vs[i].video_id, i, FALSE, <<>>)]

rank_videos(vs, mt) ==
    IF Len(vs) = 0 THEN <<>>
    ELSE IF mt.none \/ Len(mt.text) = 0 THEN Fallback(vs)
    ELSE LET text == CleanMarkdown(mt.text)
             json_text == ExtractJson(text)
         IN IF StructuredOk(json_text) THEN Structured(json_text)
            ELSE IF Len(IdPositions(vs, text)) > 0 THEN Heuristic(vs, text)
            ELSE Fallback(vs)

(************************** merging in topic_videos ************************)
\* next((v for v in videos if v['video_id'] == id), None): index, 0 for None.
Lookup(vs, id) ==
    IF \E i \in 1..Len(vs) : vs[i].video_id = id
    THEN First({i \in 1..Len(vs) : vs[i].video_id = id})
    ELSE 0

\* ranked_video['video_id'] raises unless the item is a dict with that key.
MergeRaises(refs) == \E i \in 1..Len(refs) : ~refs[i].has_id

\* The loop over ranked.  st.vs are the video dicts, which the loop updates in
\* place; st.out lists, by index into vs, the dicts appended to topic['videos'].
RECURSIVE MergeFrom(_, _, _)
MergeFrom(refs, i, st) ==
    IF i > Len(refs) THEN st
    ELSE LET r == refs[i]
             j == Lookup(st.vs, r.video_id)
         IN IF j = 0 THEN MergeFrom(refs, i + 1, st)
            ELSE MergeFrom(refs, i + 1,
                   [vs |-> [st.vs EXCEPT ![j].has_rank = TRUE, ![j].rank = r.rank,
                                         ![j].reasoning =
                                            IF r.has_reasoning THEN r.reasoning ELSE <<>>],
                    out |-> Append(st.out, j)])

\* topic['videos'] after the loop: the appended dicts as they are at the end.
Merge(vs, refs) ==
    LET st == MergeFrom(refs, 1, [vs |-> vs, out |-> <<>>])
    IN [i \in 1..Len(st.out) |-> st.vs[st.out[i]]]

(*************************** generate_study_plan ***************************)
\* A topic object with the four keys the prompt asks for.
Topic(name, weightage, hours, concepts) ==
    [EmptyObject EXCEPT !.name = Str(<<name>>), !.weightage = Str(weightage),
                        !.estimated_hours = Num(hours), !.key_concepts = List(concepts)]

\* An item of the list stored under 'topics'; kind is its Python type.
Item(kind, obj) == [kind |-> kind, obj |-> obj]

HIGH == <<"H", "I", "G", "H">>
MEDIUM == <<"M", "E", "D", "I", "U", "M">>
LOW == <<"L", "O", "W">>

FallbackTopics ==
    << Item("dict", Topic("Important Topic 1", HIGH, 12, <<"Concept A", "Concept B", "Concept C">>)),
       Item("dict", Topic("Important Topic 2", HIGH, 10, <<"Concept D", "Concept E", "Concept F">>)),
       Item("dict", Topic("Topic 3", MEDIUM, 8, <<"Concept G", "Concept H", "Concept I">>)),
       Item("dict", Topic("Topic 4", LOW, 5, <<"Concept J", "Concept K", "Concept L">>)),
       Item("dict", Topic("Topic 5", MEDIUM, 6, <<"Concept M", "Concept N", "Concept O">>)) >>

\* session['topics']: unset, or the stored value (a list, or a dict whose
\* iteration yields its keys).
NoSession == [kind |-> "none", items |-> <<>>]
Stored(kind, items) == [kind |-> kind, items |-> items]

\* What generate_study_plan returns: None, or a plan with its 'topics' value.
NoPlan == [none |-> TRUE, topics |-> NoSession]
Plan(topics) == [none |-> FALSE, topics |-> topics]

(****************************** /videos/<idx> ******************************)
\* topic = topics[idx]; topic['name']: raises when topics is no list, or the
\* item is no dict or has no 'name' key.
TopicLookupRaises(idx) ==
    \/ session_topics.kind # "list"
    \/ session_topics.items[idx + 1].kind # "dict"
    \/ session_topics.items[idx + 1].obj.name.t = "absent"

\* The session cookie is written only when a top-level key is assigned, so the
\* in-place topic['videos'] = [...] does not reach session['topics'].
topic_videos(idx) ==
    /\ pc = "start"
    /\ pc' = "done"
    /\ UNCHANGED <<planText, plan, normalized, session_topics, visits, videos, modelText>>
    /\ IF Len(session_topics.items) = 0 \/ idx < 0 \/ idx >= Len(session_topics.items)
       THEN /\ outcome' = "redirect"
            /\ UNCHANGED <<ranked, topicVideos>>
       ELSE IF TopicLookupRaises(idx)
       THEN /\ outcome' = "error"
            /\ UNCHANGED <<ranked, topicVideos>>
       ELSE /\ ranked' = rank_videos(videos, modelText)
            /\ IF MergeRaises(ranked')
               THEN outcome' = "error" /\ UNCHANGED topicVideos
               ELSE outcome' = "ok" /\ topicVideos' = Merge(videos, ranked')

(************************ inputs of a /videos request **********************)
IdPool == <<"a", "b", "c", "d", "e", "f", "g", "h">>
PoolId(i) == IdPool[((i - 1) % Len(IdPool)) + 1]

\* search_youtube's results: distinct ids, in the order the search gave them.
VideoLists == {[i \in 1..n |-> Video(PoolId(i))] : n \in 0..MaxVideos}

RECURSIVE SeqsUpTo(_, _)
SeqsUpTo(S, n) ==
    IF n = 0 THEN {<<>>}
    ELSE SeqsUpTo(S, n - 1) \cup {Append(s, x) : s \in {t \in SeqsUpTo(S, n - 1) : Len(t) = n - 1}, x \in S}

FreeLexemes == {Lx("{"), Lx("}"), Lx("["), Lx("]"), Lx("rv"), Lx("num"), Lx("x"), Lx("f"),
                IdLx("a"), IdLx("b"), Ent("a", 2, FALSE)}

\* "z" is an id the search did not return.
Entries == {Ent(v, r, h) : v \in {"a", "b", "z"}, r \in {1, 2}, h \in BOOLEAN}

RECURSIVE ArrayFrom(_, _)
\* The lexemes of {e1},{e2},... from entry i on.
ArrayFrom(es, i) ==
    IF i > Len(es) THEN <<>>
    ELSE <<Lx("{"), es[i], Lx("}")>> \o (IF i < Len(es) THEN <<Lx(",")>> ELSE <<>>)
         \o ArrayFrom(es, i + 1)

Array(es) == <<Lx("[")>> \o ArrayFrom(es, 1) \o <<Lx("]")>>
Envelope(es) == <<Lx("{"), Lx("rv")>> \o Array(es) \o <<Lx("}")>>

\* The shapes of an answer that lists the entries es.
Answers(es) ==
    { Envelope(es),
      <<Lx("fj")>> \o Envelope(es) \o <<Lx("f")>>,
      <<Lx("x")>> \o Envelope(es) \o <<Lx("x")>>,
      Array(es),
      <<Lx("{"), Lx("rv"), Lx("[")>> \o ArrayFrom(es, 1) }

\* A well-formed answer of n entries, ranks 1..n, ids in reverse search order.
LongEntries(n) == [i \in 1..n |-> Ent(PoolId(n + 1 - i), i, TRUE)]
\* Prose that mentions n ids in reverse search order.
LongProse(n) == [i \in 1..n |-> IdLx(PoolId(n + 1 - i))]

RankTexts ==
    SeqsUpTo(FreeLexemes, MaxText)
    \cup UNION {Answers(es) : es \in SeqsUpTo(Entries, MaxEntries)}
    \cup UNION {Answers(LongEntries(n)) : n \in 1..MaxLong}
    \cup {LongProse(n) : n \in 1..MaxLong}

ModelTexts == {NoText} \cup {Text(t) : t \in RankTexts}

InitRank ==
    /\ planText = NoText
    /\ plan = NoPlan
    /\ normalized = <<>>
    /\ visits = 0
    /\ pc = "start"
    /\ outcome = "none"
    /\ ranked = <<>>
    /\ topicVideos = <<>>
    /\ \/ /\ session_topics = NoSession
          /\ videos = <<>>
          /\ modelText = NoText
       \/ /\ session_topics = Stored("list", FallbackTopics)
          /\ videos \in VideoLists
          /\ modelText \in ModelTexts

\* The first index and the first one past the end.
Indexes == {0, Len(FallbackTopics)}

NextRank == \E idx \in Indexes : topic_videos(idx)

SpecRank == InitRank /\ [][NextRank]_vars

(***************************** raw topic objects ***************************)
LowerChars == <<"a", "b", "c", "d", "e", "f", "g", "h", "i", "j", "k", "l", "m",
                "n", "o", "p", "q", "r", "s", "t", "u", "v", "w", "x", "y", "z">>
UpperChars == <<"A", "B", "C", "D", "E", "F", "G", "H", "I", "J", "K", "L", "M",
                "N", "O", "P", "Q", "R", "S", "T", "U", "V", "W", "X", "Y", "Z">>

\* The topic objects a plan may list, with the key variations of AI output.
RawTopicPool ==
    << [EmptyObject EXCEPT !.name = Str(<<"A">>), !.weightage = Str(<<"H", "I", "G", "H">>),
                           !.estimated_hours = Num(3), !.key_concepts = List(<<"c1", "c2">>)],
       [EmptyObject EXCEPT !.topic = Str(<<"B">>), !.weightage = Str(<<"h", "i", "g", "h">>),
                           !.estimatedHours = Num(4), !.keyConcepts = List(<<"c3">>)],
       [EmptyObject EXCEPT !.title = Str(<<"C">>), !.weightage = Str(<<"M", "e", "d", "i", "u", "m">>),
                           !.estimated_hours = JNull, !.hours = Num(7),
                           !.key_concepts = List(<<>>), !.concepts = List(<<"c4">>)],
       [EmptyObject EXCEPT !.name = Str(<<>>), !.topic = Str(<<"D">>),
                           !.weightage = Str(<<"l", "o", "w">>),
                           !.estimated_hours = Num(0), !.hours = Num(5),
                           !.key_concepts = Str(<<"a", "b">>)],
       [EmptyObject EXCEPT !.name = Str(<<"E">>), !.title = Str(<<"E2">>),
                           !.weight = Str(<<"v", "e", "r", "y", " ", "h", "i", "g", "h">>),
                           !.concepts = Num(5)],
       [EmptyObject EXCEPT !.priority = Str(<<"l", "o", "w", "/", "H", "i", "g", "h">>),
                           !.estimated_hours = Str(<<>>), !.hours = Num(2)],
       [EmptyObject EXCEPT !.name = Str(<<"G">>),
                           !.weightage = Str(<<"m", "e", "d", "/", "l", "o", "w">>)],
       [EmptyObject EXCEPT !.name = Str(<<"H">>),
                           !.weightage = Str(<<"u", "r", "g", "e", "n", "t">>)],
       [EmptyObject EXCEPT !.name = Str(<<"I">>), !.weightage = Str(<<>>),
                           !.weight = Str(<<"L", "O", "W">>)],
       [EmptyObject EXCEPT !.name = Str(<<"J">>)],
       [EmptyObject EXCEPT !.name = Str(<<"K">>), !.weightage = Num(1)],
       [EmptyObject EXCEPT !.name = Str(<<"L">>), !.weightage = JNull,
                           !.priority = Str(<<"H", "I", "G", "H">>)],
       [EmptyObject EXCEPT !.name = Str(<<"M">>), !.weightage = Str(<<"L", "O", "W">>)] >>

(******************* generate_study_plan, continued ************************)
\* A decoded JSON value as an item of the 'topics' list.  A dict that is not
\* a topic object has none of the alias keys.
ItemOf(v) ==
    IF v.kind = "dict" /\ v.key = "fields" /\ v.fields.k = "top"
    THEN Item("dict", RawTopicPool[v.fields.tid])
    ELSE Item(v.kind, EmptyObject)

\* How many keys a decoded dict has.
KeyCount(v) ==
    IF v.key = "" THEN 0
    ELSE IF v.key # "fields" THEN 1
    ELSE IF v.fields.k = "ent" THEN (IF v.fields.has_reas THEN 3 ELSE 2)
    ELSE Cardinality({k \in AliasKeys : RawTopicPool[v.fields.tid][k].t # "absent"})

\* plan['topics'] as the session will hold it.
TopicsValue(v) ==
    IF v.kind = "list" THEN Stored("list", [i \in 1..Len(v.items) |-> ItemOf(v.items[i])])
    ELSE Stored("dict", [i \in 1..KeyCount(v) |-> Item("str", EmptyObject)])

generate_study_plan(resp) ==
    IF resp.none \/ Len(resp.text) = 0 THEN Plan(Stored("list", FallbackTopics))
    ELSE LET r == json_loads(CleanMarkdown(resp.text))
         IN IF ~r.ok THEN NoPlan                                       \* json.loads raised
            ELSE IF r.val.kind # "dict" \/ r.val.key # "topics" THEN NoPlan  \* plan['topics'] raised
            ELSE IF r.val.val.kind = "num" THEN NoPlan                       \* len() raised
            ELSE Plan(TopicsValue(r.val.val))

(********************************* /Submit *********************************)
\* The form fields only reach the prompt and the search query; the answers to
\* both are inputs of the model, so the fields are not kept.
submit ==
    /\ pc = "form"
    /\ pc' = "submitted"
    /\ plan' = generate_study_plan(planText)
    /\ IF plan'.none \/ Len(plan'.topics.items) = 0
       THEN outcome' = "result" /\ UNCHANGED session_topics
       ELSE outcome' = "redirect" /\ session_topics' = plan'.topics
    /\ UNCHANGED <<planText, normalized, visits, videos, modelText, ranked, topicVideos>>

(********************************* /topics *********************************)
Truthy(v) ==
    \/ v.t = "str" /\ Len(v.s) > 0
    \/ v.t = "num" /\ v.n # 0
    \/ v.t = "list" /\ Len(v.s) > 0

\* t.get(k1) or t.get(k2) or t.get(k3) or default
FirstTruthy(t, keys, default) ==
    IF Truthy(t[keys[1]]) THEN t[keys[1]]
    ELSE IF Truthy(t[keys[2]]) THEN t[keys[2]]
    ELSE IF Truthy(t[keys[3]]) THEN t[keys[3]]
    ELSE default

IsNone(v) == v.t \in {"absent", "null"}

\* Variant: the hours resolved with "or", like the other fields.
FirstNotNone_Or(t, keys, default) ==
    IF Truthy(t[keys[1]]) THEN t[keys[1]]
    ELSE IF Truthy(t[keys[2]]) THEN t[keys[2]]
    ELSE IF Truthy(t[keys[3]]) THEN t[keys[3]]
    ELSE default

\* t.get(k1) if t.get(k1) is not None else t.get(k2) if ... else default
FirstNotNone(t, keys, default) ==
    IF ~IsNone(t[keys[1]]) THEN t[keys[1]]
    ELSE IF ~IsNone(t[keys[2]]) THEN t[keys[2]]
    ELSE IF ~IsNone(t[keys[3]]) THEN t[keys[3]]
    ELSE default

NameKeys == <<"name", "topic", "title">>
WeightKeys == <<"weightage", "weight", "priority">>
HoursKeys == <<"estimated_hours", "estimatedHours", "hours">>
ConceptKeys == <<"key_concepts", "keyConcepts", "concepts">>

UpperChar(c) ==
    IF \E i \in 1..Len(LowerChars) : LowerChars[i] = c
    THEN UpperChars[CHOOSE i \in 1..Len(LowerChars) : LowerChars[i] = c]
    ELSE c
LowerChar(c) ==
    IF \E i \in 1..Len(UpperChars) : UpperChars[i] = c
    THEN LowerChars[CHOOSE i \in 1..Len(UpperChars) : UpperChars[i] = c]
    ELSE c
Upper(s) == [i \in 1..Len(s) |-> UpperChar(s[i])]
Lower(s) == [i \in 1..Len(s) |-> LowerChar(s[i])]

\* sub in s
In(sub, s) == \E i \in 1..(Len(s) - Len(sub) + 1) : SubSeq(s, i, i + Len(sub) - 1) = sub

\* Variant: the substring tests in the order low, med, high.
CanonicalWeight_LowFirst(weight) ==
    IF weight \in {HIGH, MEDIUM, LOW} THEN weight
    ELSE IF In(<<"l", "o", "w">>, Lower(weight)) THEN LOW
    ELSE IF In(<<"m", "e", "d">>, Lower(weight)) THEN MEDIUM
    ELSE IF In(<<"h", "i", "g", "h">>, Lower(weight)) THEN HIGH
    ELSE MEDIUM

\* Lines 441-450, weight being the upper-cased raw string.
CanonicalWeight(weight) ==
    IF weight \in {HIGH, MEDIUM, LOW} THEN weight
    ELSE IF In(<<"h", "i", "g", "h">>, Lower(weight)) THEN HIGH
    ELSE IF In(<<"m", "e", "d">>, Lower(weight)) THEN MEDIUM
    ELSE IF In(<<"l", "o", "w">>, Lower(weight)) THEN LOW
    ELSE MEDIUM

\* .upper() exists on str only.
UpperRaises(t) == FirstTruthy(t, WeightKeys, Str(<<>>)).t # "str"

\* The list that lines 455-459 make of the resolved key_concepts.
AsList(v) ==
    IF v.t = "list" THEN v
    ELSE IF v.t = "str" THEN List(v.s)          \* list('ab') = ['a', 'b']
    ELSE List(<<ToString(v.n)>>)                \* list(5) raises: [str(5)]

\* The record appended for the raw topic t.
NormalizedTopic(t) ==
    [EmptyObject EXCEPT
        !.name = FirstTruthy(t, NameKeys, Str(<<>>)),
        !.weightage = Str(CanonicalWeight(Upper(FirstTruthy(t, WeightKeys, Str(<<>>)).s))),
        !.estimated_hours = FirstNotNone(t, HoursKeys, Str(<<>>)),
        !.key_concepts = AsList(FirstTruthy(t, ConceptKeys, List(<<>>)))]

\* t.get raises unless t is a dict.
NormalizeRaises(items) ==
    \E i \in 1..Len(items) : items[i].kind # "dict" \/ UpperRaises(items[i].obj)

NormalizeAll(items) == [i \in 1..Len(items) |-> Item("dict", NormalizedTopic(items[i].obj))]

\* Variant: MEDIUM and LOW with each other's priority.
Order_Swapped(weightage) ==
    IF weightage = HIGH THEN 0 ELSE IF weightage = MEDIUM THEN 2
    ELSE IF weightage = LOW THEN 1 ELSE 1

\* order = {'HIGH': 0, 'MEDIUM': 1, 'LOW': 2}; order.get(weightage, 1)
Order(weightage) ==
    IF weightage = HIGH THEN 0 ELSE IF weightage = MEDIUM THEN 1
    ELSE IF weightage = LOW THEN 2 ELSE 1

SortByWeight(items) ==
    SortByKey([i \in 1..Len(items) |-> [key |-> Order(items[i].obj.weightage.s), val |-> items[i]]])

topics_page ==
    /\ visits < MaxVisits
    /\ IF Len(session_topics.items) = 0
       THEN outcome' = "redirect" /\ UNCHANGED <<normalized, session_topics, visits>>
       ELSE IF NormalizeRaises(session_topics.items)
       THEN outcome' = "error" /\ UNCHANGED <<normalized, session_topics, visits>>
       ELSE /\ normalized' = NormalizeAll(session_topics.items)
            /\ session_topics' = Stored("list", SortByWeight(normalized'))
            /\ visits' = visits + 1
            /\ outcome' = "ok"
    /\ UNCHANGED <<planText, plan, pc, videos, modelText, ranked, topicVideos>>

(************************** inputs of a /Submit ****************************)
PlanLexemes == {Lx("{"), Lx("}"), Lx("["), Lx("]"), Lx("tp"), Lx("num"), Lx("x"), Lx("f"),
                TopLx(1)}

TopicArray(ids) == Array([i \in 1..Len(ids) |-> TopLx(ids[i])])
PlanEnvelope(ids) == <<Lx("{"), Lx("tp")>> \o TopicArray(ids) \o <<Lx("}")>>

\* The shapes of an answer that lists the topics ids.
PlanAnswers(ids) ==
    { PlanEnvelope(ids),
      <<Lx("fj")>> \o PlanEnvelope(ids) \o <<Lx("f")>>,
      PlanEnvelope(ids) \o <<Lx("x")>> }

PlanTexts ==
    SeqsUpTo(PlanLexemes, MaxText)
    \cup {PlanEnvelope(ids) : ids \in SeqsUpTo(1..Len(RawTopicPool), MaxTopics)}
    \cup UNION {PlanAnswers(ids) : ids \in SeqsUpTo(1..Len(RawTopicPool), 1)}

Init ==
    /\ planText \in {NoText} \cup {Text(t) : t \in PlanTexts}
    /\ plan = NoPlan
    /\ normalized = <<>>
    /\ session_topics = NoSession
    /\ visits = 0
    /\ videos = <<>>
    /\ modelText = NoText
    /\ ranked = <<>>
    /\ topicVideos = <<>>
    /\ pc = "form"
    /\ outcome = "none"

Next == submit \/ topics_page

Spec == Init /\ [][Next]_vars

(***************************************************************************)
(* Properties of rank_videos and of the merge, stated for SpecRank.        *)
(***************************************************************************)
Ranked == pc = "done" /\ outcome \in {"ok", "error"} /\ ~TopicLookupRaises(0)
HasText == ~modelText.none /\ Len(modelText.text) > 0
Cleaned == CleanMarkdown(modelText.text)
VideoIds == {videos[i].video_id : i \in 1..Len(videos)}
\* The first offset at which id occurs in text, 0 when it does not occur.
FirstOffset(text, id) ==
    IF \E i \in 1..Len(text) : text[i].vid = id /\ text[i].k \in {"id", "ent"}
    THEN CHOOSE i \in 1..Len(text) :
            /\ text[i].vid = id /\ text[i].k \in {"id", "ent"}
            /\ \A j \in 1..(i - 1) : ~(text[j].vid = id /\ text[j].k \in {"id", "ent"})
    ELSE 0
FoundIds == {id \in VideoIds : FirstOffset(Cleaned, id) > 0}
StructuredFound == StructuredOk(ExtractJson(Cleaned))

\* C1: whatever tier produced it, the returned sequence carries the ranks
\* 1..k in order, k its length.
C1_RanksContiguous ==
    (pc = "done" /\ outcome = "ok") => \A i \in 1..Len(ranked) : ranked[i].rank = i

\* C3: the returned sequence has at most 5 items and at most as many items as
\* there are candidates.
C3_LengthBounded ==
    Ranked => Len(ranked) <= 5 /\ Len(ranked) <= Len(videos)

\* The returned references whose id is the id of a candidate.
C4_Matched == SelectSeq(ranked, LAMBDA r : r.video_id \in VideoIds)

\* C4: the merge emits, for each returned reference whose id matches a
\* candidate, one record with that candidate's fields and the reference's own
\* rank and reasoning ('' when absent), drops the others, and the emitted
\* records are in ascending rank order.
C4_MergeJoins ==
    (pc = "done" /\ outcome = "ok") =>
        /\ Len(topicVideos) = Len(C4_Matched)
        /\ \A i \in 1..Len(topicVideos) :
              /\ topicVideos[i].video_id = C4_Matched[i].video_id
              /\ topicVideos[i].title = Video(C4_Matched[i].video_id).title
              /\ topicVideos[i].channel = Video(C4_Matched[i].video_id).channel
              /\ topicVideos[i].url = Video(C4_Matched[i].video_id).url
              /\ topicVideos[i].rank = C4_Matched[i].rank
              /\ topicVideos[i].reasoning =
                    IF C4_Matched[i].has_reasoning THEN C4_Matched[i].reasoning ELSE <<>>
        /\ \A i, j \in 1..Len(topicVideos) : i < j => topicVideos[i].rank <= topicVideos[j].rank

\* No text, or text in which neither tier finds anything.
C5_Pre == ~HasText \/ (~StructuredFound /\ FoundIds = {})

\* C5: with no text, or with text in which neither the structured nor the
\* heuristic tier finds anything, the result is the first min(5, n) candidates
\* in input order with ranks 1.. and no reasoning; no candidates, no result.
C5_Fallback ==
    /\ (Ranked /\ Len(videos) = 0) => Len(ranked) = 0
    /\ (Ranked /\ C5_Pre) =>
          /\ Len(ranked) = (IF Len(videos) < 5 THEN Len(videos) ELSE 5)
          /\ \A i \in 1..Len(ranked) :
                /\ ranked[i].kind = "dict" /\ ranked[i].has_id
                /\ ranked[i].video_id = videos[i].video_id
                /\ ranked[i].rank = i
                /\ ~ranked[i].has_reasoning
C5_Witness ==
    /\ Ranked /\ HasText /\ C5_Pre
    /\ Len(videos) > 5 /\ Len(ranked) = 5

\* Text in which the structured tier finds nothing and some id occurs.
C8_Pre == HasText /\ Len(videos) > 0 /\ ~StructuredFound /\ FoundIds # {}

\* C8: with text, no structured result and at least one candidate id in the
\* text, the result is the candidates whose id occurs, at most 5 of them,
\* by ascending first offset, with ranks 1..k.
C8_Heuristic ==
    (Ranked /\ C8_Pre) =>
        /\ Len(ranked) = (IF Cardinality(FoundIds) < 5 THEN Cardinality(FoundIds) ELSE 5)
        /\ \A i \in 1..Len(ranked) :
              /\ ranked[i].kind = "dict" /\ ranked[i].has_id
              /\ ranked[i].rank = i
              /\ ranked[i].video_id \in FoundIds
              /\ Cardinality({id \in FoundIds :
                    FirstOffset(Cleaned, id) < FirstOffset(Cleaned, ranked[i].video_id)}) = i - 1
C8_Witness ==
    /\ Ranked /\ C8_Pre
    /\ Cardinality(FoundIds) > 5 /\ Len(ranked) = 5
    /\ ranked[1].video_id # videos[1].video_id

(***************************************************************************)
(* Properties of generate_study_plan and topics_page, stated for Spec.     *)
(***************************************************************************)
Canonical == {HIGH, MEDIUM, LOW}
\* The raw topic objects of the plan, as submit stored them.
RawItems == plan.topics.items
FirstVisit == pc = "submitted" /\ visits = 1
WeightsOf(items) == [i \in 1..Len(items) |-> items[i].obj.weightage.s]

\* The model gave no text, or text that does not decode.
C2_Failure ==
    \/ planText.none
    \/ Len(planText.text) = 0
    \/ ~json_loads(CleanMarkdown(planText.text)).ok

\* C2: generate returns the 5-topic fallback plan, weights HIGH, HIGH, MEDIUM,
\* LOW, MEDIUM, whenever the model gave no text or the text does not decode;
\* it never returns None nor a plan with no topics.
C2_FallbackOnFailure ==
    pc = "submitted" =>
        /\ ~plan.none
        /\ Len(plan.topics.items) > 0
        /\ C2_Failure =>
              /\ Len(plan.topics.items) = 5
              /\ WeightsOf(plan.topics.items) = <<HIGH, HIGH, MEDIUM, LOW, MEDIUM>>

\* The value of the first of keys whose value satisfies Usable, else default.
ClaimedFirst(t, keys, Usable(_), default) ==
    IF \E i \in 1..Len(keys) : Usable(t[keys[i]])
    THEN t[keys[CHOOSE i \in 1..Len(keys) :
                    Usable(t[keys[i]]) /\ \A j \in 1..(i - 1) : ~Usable(t[keys[j]])]]
    ELSE default
Present(v) == v.t # "absent"
NonEmpty(v) == (v.t \in {"str", "list"} /\ Len(v.s) > 0) \/ (v.t = "num" /\ v.n # 0)
NotNull(v) == v.t \notin {"absent", "null"}

\* The weightage stated for a raw record, its raw value being the first
\* non-empty one of weightage, weight, priority.
C6_Claimed(raw) ==
    LET v == ClaimedFirst(raw, WeightKeys, NonEmpty, Str(<<>>)).s
    IN IF Upper(v) \in Canonical THEN Upper(v)
       ELSE IF In(<<"h", "i", "g", "h">>, Lower(v)) THEN HIGH
       ELSE IF In(<<"m", "e", "d">>, Lower(v)) THEN MEDIUM
       ELSE IF In(<<"l", "o", "w">>, Lower(v)) THEN LOW
       ELSE MEDIUM

\* C6: after normalization every weightage is HIGH, MEDIUM or LOW: the
\* upper-cased raw value if that is one of the three; else HIGH if the raw
\* value contains "high" whatever the case, else MEDIUM if it contains "med",
\* else LOW if it contains "low"; else, or with no raw value, MEDIUM.
C6_WeightCanonical ==
    /\ visits >= 1 => \A i \in 1..Len(session_topics.items) :
                         session_topics.items[i].obj.weightage.s \in Canonical
    /\ FirstVisit => \A i \in 1..Len(normalized) :
                         normalized[i].obj.weightage.s = C6_Claimed(RawItems[i].obj)
C6_Witness ==
    /\ FirstVisit
    /\ \E i \in 1..Len(normalized) :
          /\ RawItems[i].obj.priority.s = <<"l", "o", "w", "/", "H", "i", "g", "h">>
          /\ normalized[i].obj.weightage.s = HIGH
    /\ \E i \in 1..Len(normalized) :
          /\ RawItems[i].obj.weightage.s = <<"m", "e", "d", "/", "l", "o", "w">>
          /\ normalized[i].obj.weightage.s = MEDIUM

C7_Tier(items, w) == SelectSeq(items, LAMBDA it : it.obj.weightage.s = w)
C7_Rank(w) == IF w = HIGH THEN 0 ELSE IF w = MEDIUM THEN 1 ELSE 2

\* C7: the stored result is the normalized records ordered HIGH, MEDIUM, LOW,
\* each tier holding its records in their input order.
C7_StableSort ==
    visits >= 1 =>
        /\ Len(session_topics.items) = Len(normalized)
        /\ \A w \in Canonical : C7_Tier(session_topics.items, w) = C7_Tier(normalized, w)
        /\ \A i, j \in 1..Len(session_topics.items) :
              i < j => C7_Rank(session_topics.items[i].obj.weightage.s)
                          <= C7_Rank(session_topics.items[j].obj.weightage.s)
C7_Witness ==
    /\ FirstVisit
    /\ Len(normalized) >= 3
    /\ session_topics.items # normalized
    /\ \E i, j \in 1..Len(normalized) :
          /\ i < j
          /\ normalized[i].obj.weightage = normalized[j].obj.weightage
          /\ normalized[i] # normalized[j]
    /\ \E i \in 1..Len(normalized) : normalized[i].obj.weightage.s = LOW
    /\ \E i \in 1..Len(normalized) : normalized[i].obj.weightage.s = MEDIUM

\* The normalized record when each field is taken from the first alias
\* whose value is usable.
C9_Expected(raw, Usable(_), UsableHours(_)) ==
    [EmptyObject EXCEPT
        !.name = ClaimedFirst(raw, NameKeys, Usable, Str(<<>>)),
        !.weightage = Str(C6_Claimed([raw EXCEPT
                          !.weightage = ClaimedFirst(raw, WeightKeys, Usable, Str(<<>>)),
                          !.weight = Absent, !.priority = Absent])),
        !.estimated_hours = ClaimedFirst(raw, HoursKeys, UsableHours, Str(<<>>)),
        !.key_concepts = AsList(ClaimedFirst(raw, ConceptKeys, Usable, List(<<>>)))]

\* C9 as stated: each field is taken from the first alias key present in the
\* raw record, even when its value is empty.
C9_FirstPresent ==
    FirstVisit => \A i \in 1..Len(normalized) :
                     normalized[i].obj = C9_Expected(RawItems[i].obj, Present, Present)

\* C9 amended: name, weight and concepts are taken from the first alias whose
\* value is non-empty; hours from the first alias whose value is not null.
C9_FirstUsable ==
    FirstVisit => \A i \in 1..Len(normalized) :
                     normalized[i].obj = C9_Expected(RawItems[i].obj, NonEmpty, NotNull)
C9_Witness ==
    /\ FirstVisit
    /\ \E i \in 1..Len(normalized) :
          /\ RawItems[i].obj.name = Str(<<>>)
          /\ normalized[i].obj.name = RawItems[i].obj.topic
          /\ normalized[i].obj.estimated_hours = Num(0)
    /\ \E i \in 1..Len(normalized) :
          /\ RawItems[i].obj.estimated_hours = JNull
          /\ normalized[i].obj.estimated_hours = RawItems[i].obj.hours
          /\ normalized[i].obj.key_concepts = RawItems[i].obj.concepts

\* C10: a visit of /topics after the first leaves the stored topics as they are.
C10_Idempotent ==
    [][(visits >= 1 /\ visits' = visits + 1) => session_topics' = session_topics]_vars
C10_Witness ==
    /\ pc = "submitted" /\ visits >= 2
    /\ session_topics.items # RawItems
    /\ \E i, j \in 1..Len(session_topics.items) :
          /\ i < j
          /\ session_topics.items[i].obj.weightage = session_topics.items[j].obj.weightage
          /\ session_topics.items[i] # session_topics.items[j]

====
